---- MODULE Spec2Model ----
(***************************************************************************)
(* A model of sniper.py: the SniperTraining controller (train, step,       *)
(* resume_from, update_hooks, update_lrs, reset_lrs, restore_init,         *)
(* load_masks), the mask derivation create_masks, and the replaced         *)
(* scheduler step scheduler_step.                                          *)
(*                                                                         *)
(* Tensors are sequences of integers (values) or of booleans (masks).      *)
(* Learning rates and factors are exact rationals <<num, den>> in lowest   *)
(* terms; floating-point rounding is not modelled.                         *)
(***************************************************************************)
EXTENDS Integers, Sequences, FiniteSets, TLC

VARIABLES
    pc,          \* "new" after __init__, "trained" after train(), "raised" after an exception
    self,        \* the fields of the SniperTraining object
    optimizers,  \* the caller's optimizers: each a sequence of param groups [name, lr]
    schedulers,  \* the caller's schedulers: [kind, base_lrs, last_epoch, step]
    module,      \* the model: [params: full name -> values, hooks: registered forward pre-hooks]
    disk,        \* the files of sniper_dir
    hist,        \* history: whether the run was resumed, the step() calls of a fresh run,
                 \* and the optimizers as they were passed to train()
    call         \* the arguments and result of the call a function specification makes

vars == <<pc, self, optimizers, schedulers, module, disk, hist, call>>

-----------------------------------------------------------------------------
(* Bounds of the model.                                                    *)

\* schedule keys are drawn from 0..MaxKey
MaxKey == 2
\* step() is called while epoch < MaxEpoch; resume_from takes epochs 0..MaxEpoch
MaxEpoch == 2
\* each scheduler is stepped at most this many times
MaxSchedSteps == 1
\* sensitivity values of the create_masks inputs are drawn from 0..MaxGrad
MaxGrad == 2
\* parameter values of the restore_init inputs are drawn from 0..MaxValue
MaxValue == 1
\* the batch iterator of compute_gradients yields at most MaxBatches batches
MaxBatches == 2
\* per-batch gradient values are drawn from -MaxBatchGrad..MaxBatchGrad
MaxBatchGrad == 1

-----------------------------------------------------------------------------
(* Exact rationals.                                                        *)

RECURSIVE GCD(_, _)
GCD(a, b) == IF b = 0 THEN a ELSE GCD(b, a % b)

Rat(n, d) == LET g == GCD(n, d) IN <<n \div g, d \div g>>
ROne == <<1, 1>>
RMul(a, b) == Rat(a[1] * b[1], a[2] * b[2])
RDiv(a, b) == Rat(a[1] * b[2], a[2] * b[1])
RLess(a, b) == a[1] * b[2] < b[1] * a[2]
RMin(a, b) == IF RLess(b, a) THEN b ELSE a
RSub(a, b) == Rat(a[1] * b[2] - b[1] * a[2], a[2] * b[2])

-----------------------------------------------------------------------------
(* Python helpers on strings, lists and dicts.                             *)

Min2(a, b) == IF a < b THEN a ELSE b

\* s[n:]
StrFrom(s, n) == IF n >= Len(s) THEN "" ELSE SubSeq(s, n + 1, Len(s))
\* s[:n]
StrTo(s, n) == IF n <= 0 THEN "" ELSE SubSeq(s, 1, Min2(n, Len(s)))
\* s.startswith(p)
StartsWith(s, p) == Len(p) <= Len(s) /\ StrTo(s, Len(p)) = p
\* sub in s
Contains(s, sub) ==
    \E i \in 0..Len(s) : i + Len(sub) <= Len(s) /\ StrTo(StrFrom(s, i), Len(sub)) = sub
\* the positions of '.' in s
Dots(s) == {i \in 1..Len(s) : SubSeq(s, i, i) = "."}
LastDot(s) == CHOOSE i \in Dots(s) : \A j \in Dots(s) : j <= i

RECURSIVE SeqSum(_)
SeqSum(s) == IF s = <<>> THEN 0 ELSE Head(s) + SeqSum(Tail(s))

\* the number of True entries of a mask: mask.sum().item()
CountTrue(mask) == Cardinality({i \in 1..Len(mask) : mask[i]})
CountFalse(mask) == Len(mask) - CountTrue(mask)

\* the values of a dict of tensors as one flat sequence (torch.cat of the views)
RECURSIVE Flatten(_, _)
Flatten(d, keys) ==
    IF keys = {} THEN <<>>
    ELSE LET k == CHOOSE x \in keys : TRUE IN d[k] \o Flatten(d, keys \ {k})

\* torch.kthvalue(t, k).values.item(): the k-th smallest value, 1 <= k <= len(t)
kthvalue(t, k) ==
    CHOOSE v \in {t[i] : i \in 1..Len(t)} :
        /\ Cardinality({i \in 1..Len(t) : t[i] < v}) < k
        /\ Cardinality({i \in 1..Len(t) : t[i] <= v}) >= k

\* int(pct / 100. * n)
IntPct(pct, n) == (pct * n) \div 100

\* random.Random(0).shuffle(x) moves x[ShufflePerm(n)[i]] to position i (CPython's
\* Mersenne Twister seeded with 0), for lists of n <= 7 elements
ShufflePerm(n) ==
    CASE n = 1 -> <<1>>
      [] n = 2 -> <<1, 2>>
      [] n = 3 -> <<1, 3, 2>>
      [] n = 4 -> <<3, 1, 2, 4>>
      [] n = 5 -> <<3, 2, 1, 5, 4>>
      [] n = 6 -> <<5, 3, 2, 1, 6, 4>>
      [] n = 7 -> <<5, 3, 2, 1, 6, 4, 7>>

Shuffle0(x) == [i \in 1..Len(x) |-> x[ShufflePerm(Len(x))[i]]]

-----------------------------------------------------------------------------
(* create_masks.                                                           *)

\* ParamMask with the threshold value itself kept (>= for >)
ParamMask_KeepsThreshold(total_grad, threshold, max_param_sparsity) ==
    [i \in 1..Len(total_grad) |-> total_grad[i] >= threshold]

\* ParamMask without the random fill: the override mask is kept even when empty
ParamMask_NoFill(total_grad, threshold, max_param_sparsity) ==
    LET mask == [i \in 1..Len(total_grad) |-> total_grad[i] > threshold]
        numel == Len(total_grad)
    IN  IF (numel - CountTrue(mask)) * 100 > max_param_sparsity * numel
        THEN LET param_threshold == kthvalue(total_grad, 1 + IntPct(max_param_sparsity, numel))
             IN  [i \in 1..numel |-> total_grad[i] > param_threshold]
        ELSE mask

\* the mask of one parameter: lines 401-415
ParamMask(total_grad, threshold, max_param_sparsity) ==
    LET mask == [i \in 1..Len(total_grad) |-> total_grad[i] > threshold]
        numel == Len(total_grad)
        nonzero == CountTrue(mask)
    IN  IF (numel - nonzero) * 100 > max_param_sparsity * numel
        THEN LET param_threshold == kthvalue(total_grad, 1 + IntPct(max_param_sparsity, numel))
                 mask2 == [i \in 1..numel |-> total_grad[i] > param_threshold]
             IN  IF CountTrue(mask2) = 0 /\ max_param_sparsity < 100
                 THEN LET num_false == IntPct(max_param_sparsity, numel)
                          bools == [i \in 1..numel |-> i > num_false]
                      IN  Shuffle0(bools)
                 ELSE mask2
        ELSE mask

\* the global threshold: lines 396-397
GlobalThreshold(sparsity, flattened_grads) ==
    kthvalue(flattened_grads, IntPct(sparsity, Len(flattened_grads)))

\* torch.kthvalue raises when k is outside 1..len
KthInRange(sparsity, total_grads) ==
    LET n == Len(Flatten(total_grads, DOMAIN total_grads))
    IN  IntPct(sparsity, n) >= 1 /\ IntPct(sparsity, n) <= n

\* create_masks(sparsity, total_grads, max_param_sparsity), when kthvalue does not raise
create_masks(sparsity, total_grads, max_param_sparsity) ==
    LET flattened_grads == Flatten(total_grads, DOMAIN total_grads)
        threshold == GlobalThreshold(sparsity, flattened_grads)
    IN  [full_name \in DOMAIN total_grads |->
            ParamMask(total_grads[full_name], threshold, max_param_sparsity)]

-----------------------------------------------------------------------------
(* Optional values: None is the empty tuple, a present value a 1-tuple.    *)

NoneV == <<>>
Some(x) == <<x>>
IsNone(o) == o = <<>>
Get(o) == o[1]

-----------------------------------------------------------------------------
(* The model under training: a module tree with four parameters.           *)

\* model.state_dict() keys, in order
StateDictOrder == <<"enc.l.w", "enc.m.w", "enc.norm.w", "dec.l.w">>
ParamPaths == {StateDictOrder[i] : i \in 1..Len(StateDictOrder)}
ModulePaths == {"enc", "enc.l", "enc.m", "enc.norm", "dec", "dec.l"}
\* every name the model's dicts are keyed by, in iteration order
NameOrder == StateDictOrder \o <<"l.w", "m.w", "norm.w">>

\* the values the model is built with (model_builder)
BuiltValues ==
    [n \in ParamPaths |->
        CASE n = "enc.l.w" -> <<1, 2, 3, 4>>
          [] n = "enc.m.w" -> <<5, 6>>
          [] n = "enc.norm.w" -> <<7>>
          [] n = "dec.l.w" -> <<8>>]

\* the keys of dict d in iteration order
RECURSIVE KeysFrom(_, _)
KeysFrom(d, order) ==
    IF order = <<>> THEN <<>>
    ELSE (IF Head(order) \in DOMAIN d THEN <<Head(order)>> ELSE <<>>) \o KeysFrom(d, Tail(order))
Keys(d) == KeysFrom(d, NameOrder)

Join(a, b) == IF a = "" THEN b ELSE IF b = "" THEN a ELSE a \o "." \o b

\* get_module_by_name(model, access_string): reduce(getattr, names, model); models are
\* named by their path from the root, and a failed getattr is AttributeError
AttributeError == "AttributeError"
get_module_by_name(base, access_string) ==
    IF access_string = "" \/ Join(base, access_string) \notin (ModulePaths \cup ParamPaths)
    THEN AttributeError
    ELSE Join(base, access_string)

\* get_module_to_snip(model, snip_module_name)
get_module_to_snip(snip_module_name) ==
    IF get_module_by_name("", snip_module_name) = AttributeError
    THEN ""
    ELSE get_module_by_name("", snip_module_name)

\* will_prune(param_name, exclude_params)
will_prune(param_name, exclude_params) ==
    ~ \E e \in exclude_params : Contains(param_name, e)

\* full_name.rsplit('.', 1) of a name holding a dot
RSplitModule(full_name) == StrTo(full_name, LastDot(full_name) - 1)
RSplitName(full_name) == StrFrom(full_name, LastDot(full_name))

\* getattr(get_module_by_name(module_to_snip, m), n): the path of the parameter, or
\* AttributeError
ParamOf(module_to_snip, m, n) ==
    LET last_module == get_module_by_name(module_to_snip, m)
    IN  IF last_module = AttributeError \/ Join(last_module, n) \notin ParamPaths
        THEN AttributeError
        ELSE Join(last_module, n)

\* get_sparsity(schedule, epoch)
get_sparsity(schedule, epoch) ==
    LET match_epoch == CHOOSE k \in DOMAIN schedule :
            /\ k <= epoch
            /\ \A j \in DOMAIN schedule : j <= epoch => j <= k
    IN  schedule[match_epoch]

\* the sensitivities compute_gradients returns for the model (its prunable parameters
\* within module_to_snip)
GradValues ==
    [n \in {"l.w", "m.w", "norm.w"} \cup ParamPaths |->
        CASE n \in {"l.w", "enc.l.w"} -> <<1, 2, 4, 6>>
          [] n \in {"m.w", "enc.m.w"} -> <<3, 5>>
          [] n \in {"norm.w", "enc.norm.w"} -> <<7>>
          [] n = "dec.l.w" -> <<8>>]

compute_gradients(snip_module_name, exclude_params) ==
    LET module_to_snip == get_module_to_snip(snip_module_name)
        local == {StrFrom(p, IF module_to_snip = "" THEN 0 ELSE Len(module_to_snip) + 1) :
                    p \in {q \in ParamPaths : module_to_snip = "" \/ StartsWith(q, module_to_snip \o ".")}}
        params_to_prune == {n \in local : will_prune(n, exclude_params)}
    IN  [n \in params_to_prune |-> GradValues[n]]

-----------------------------------------------------------------------------
(* The operations of SniperTraining, as functions of the world              *)
(* w = [self, optimizers, schedulers, module, disk].                        *)

World ==
    [self |-> self, optimizers |-> optimizers, schedulers |-> schedulers,
     module |-> module, disk |-> disk]

\* the key of a mask file: masks_{sparsity}{max_suffix}.pt
MasksPath(sparsity, max_param_sparsity) == <<sparsity, max_param_sparsity>>

\* load_masks that returns the file's masks as they are
load_masks_Unfiltered(w, sparsity) ==
    w.disk.masks[MasksPath(sparsity, w.self.max_param_sparsity)]

\* load_masks(sparsity): the file's masks without the excluded names
load_masks(w, sparsity) ==
    LET masks == w.disk.masks[MasksPath(sparsity, w.self.max_param_sparsity)]
        kept == {full_name \in DOMAIN masks : will_prune(full_name, w.self.exclude_params)}
    IN  [full_name \in kept |-> masks[full_name]]

\* scaling_fn(sparsity_ratio)
scaling_fn(w, sparsity_ratio) ==
    RMin(w.self.max_lr_scaling, RDiv(ROne, RSub(ROne, sparsity_ratio)))

\* a handle id no registered hook has
FreshId(hooks) ==
    CHOOSE i \in 1..(Cardinality(hooks) + 1) :
        /\ i \notin {h.id : h \in hooks}
        /\ \A j \in 1..(i - 1) : j \in {h.id : h \in hooks}

\* module_to_snip.register_forward_pre_hook(hook=get_forward_hook(masks)): the hook
\* closes over the masks object it was given (None included)
register_forward_pre_hook(w, masks) ==
    LET id == FreshId(w.module.hooks)
    IN  [w EXCEPT !.module.hooks = @ \cup {[id |-> id, masks |-> masks]},
                  !.self.forward_hook = Some(id)]

\* forward_hook.remove()
remove_hook(w) ==
    [w EXCEPT !.module.hooks = {h \in @ : h.id # Get(w.self.forward_hook)}]

\* update_hooks(new_sparsity)
update_hooks(w, new_sparsity) ==
    LET w1 == IF ~IsNone(w.self.forward_hook) THEN remove_hook(w) ELSE w
    IN  IF new_sparsity # 0
        THEN register_forward_pre_hook(w1, w1.self.current_masks)
        ELSE [w1 EXCEPT !.self.forward_hook = NoneV]

\* param_group['lr'] *= lr_ratio for the zipped (lr_ratios, param_groups)
ScaleGroups(optimizer, lr_ratios) ==
    [g \in 1..Len(optimizer) |->
        IF g <= Len(lr_ratios)
        THEN [optimizer[g] EXCEPT !.lr = RMul(@, lr_ratios[g])]
        ELSE optimizer[g]]

\* [new / old for new, old in zip(new_lr_factors, old_lr_factors)]
LrRatios(new_lr_factors, old_lr_factors) ==
    [g \in 1..Min2(Len(new_lr_factors), Len(old_lr_factors)) |->
        RDiv(new_lr_factors[g], old_lr_factors[g])]

\* lines 321-323
NewLrFactor(w, new_sparsity) ==
    IF w.self.scale_lr THEN scaling_fn(w, Rat(new_sparsity, 100)) ELSE ROne

\* lines 325-338: the factor of every group of every optimizer
NewOptimLrFactors(w, new_sparsity) ==
    LET cutoff == IF w.self.snip_module_name # "" THEN Len(w.self.snip_module_name) + 1 ELSE 0
        masks == Get(w.self.current_masks)
    IN  [o \in 1..Len(w.optimizers) |->
            [g \in 1..Len(w.optimizers[o]) |->
                LET full_name == StrFrom(w.optimizers[o][g].name, cutoff)
                IN  IF full_name \in DOMAIN masks /\ CountTrue(masks[full_name]) # 0
                    THEN scaling_fn(w, RSub(ROne, Rat(CountTrue(masks[full_name]),
                                                      Len(masks[full_name]))))
                    ELSE NewLrFactor(w, new_sparsity)]]

\* functools.partial(scheduler_step, self=scheduler, lr_factor=..., lr_factors=...)
PartialStep(lr_factor, lr_factors) ==
    [fn |-> "scheduler_step", lr_factor |-> lr_factor, lr_factors |-> lr_factors]
\* the step method a scheduler is constructed with
BoundStep == [fn |-> "step", lr_factor |-> NoneV, lr_factors |-> NoneV]

\* lines 340-359: scale_lr_by_param
UpdateLrsByParam(w, new_sparsity) ==
    LET optim_lr_factors == NewOptimLrFactors(w, new_sparsity)
        old == w.self.optim_lr_factors
        nZip == IF w.schedulers # <<>>
                THEN Min2(Min2(Len(w.self.update_step_fns), Len(old)),
                          Min2(Len(w.optimizers), Len(w.schedulers)))
                ELSE Min2(Len(old), Len(w.optimizers))
        patched(i) == w.schedulers # <<>> /\ i <= nZip /\ w.self.update_step_fns[i]
        scaled(i) == i <= nZip /\ ~patched(i)
    IN  [w EXCEPT
            !.schedulers = [i \in 1..Len(w.schedulers) |->
                IF patched(i)
                THEN [w.schedulers[i] EXCEPT !.step = PartialStep(NoneV, Some(optim_lr_factors[i]))]
                ELSE w.schedulers[i]],
            !.optimizers = [i \in 1..Len(w.optimizers) |->
                IF scaled(i)
                THEN ScaleGroups(w.optimizers[i], LrRatios(optim_lr_factors[i], old[i]))
                ELSE w.optimizers[i]],
            !.self.optim_lr_factors = optim_lr_factors]

\* lines 361-374: scale_lr only
UpdateLrsUniform(w, new_sparsity) ==
    LET new_lr_factor == NewLrFactor(w, new_sparsity)
        lr_ratio == RDiv(new_lr_factor, w.self.lr_factor)
        nZip == IF w.schedulers # <<>>
                THEN Min2(Len(w.self.update_step_fns), Min2(Len(w.optimizers), Len(w.schedulers)))
                ELSE Len(w.optimizers)
        patched(i) == w.schedulers # <<>> /\ i <= nZip /\ w.self.update_step_fns[i]
        scaled(i) == i <= nZip /\ ~patched(i)
    IN  [w EXCEPT
            !.schedulers = [i \in 1..Len(w.schedulers) |->
                IF patched(i)
                THEN [w.schedulers[i] EXCEPT !.step = PartialStep(Some(lr_ratio), NoneV)]
                ELSE w.schedulers[i]],
            !.optimizers = [i \in 1..Len(w.optimizers) |->
                IF scaled(i)
                THEN ScaleGroups(w.optimizers[i],
                                 [g \in 1..Len(w.optimizers[i]) |-> lr_ratio])
                ELSE w.optimizers[i]],
            !.self.lr_factor = new_lr_factor]

\* update_lrs(new_sparsity)
update_lrs(w, new_sparsity) ==
    IF ~w.self.scale_lr /\ ~w.self.scale_lr_by_param
    THEN w
    ELSE IF w.self.scale_lr_by_param
         THEN UpdateLrsByParam(w, new_sparsity)
         ELSE UpdateLrsUniform(w, new_sparsity)

\* reset_lrs that leaves every lr and every step as it finds them
reset_lrs_NoReset(w) == w

\* reset_lrs that divides the lrs but never puts a scheduler's own step back
reset_lrs_KeepStep(w) ==
    IF w.schedulers # <<>>
    THEN LET nZip == Min2(Min2(Len(w.self.update_step_fns), Len(w.optimizers)),
                          Min2(Len(w.schedulers), Len(w.self.step_fns)))
         IN  [w EXCEPT
                !.optimizers = [i \in 1..Len(w.optimizers) |->
                    IF i <= nZip /\ ~w.self.update_step_fns[i]
                    THEN [g \in 1..Len(w.optimizers[i]) |->
                            [w.optimizers[i][g] EXCEPT !.lr = RDiv(@, w.self.lr_factor)]]
                    ELSE w.optimizers[i]]]
    ELSE w

\* reset_lrs()
reset_lrs(w) ==
    IF w.schedulers # <<>>
    THEN LET nZip == Min2(Min2(Len(w.self.update_step_fns), Len(w.optimizers)),
                          Min2(Len(w.schedulers), Len(w.self.step_fns)))
         IN  [w EXCEPT
                !.schedulers = [i \in 1..Len(w.schedulers) |->
                    IF i <= nZip /\ w.self.update_step_fns[i]
                    THEN [w.schedulers[i] EXCEPT !.step = w.self.step_fns[i]]
                    ELSE w.schedulers[i]],
                !.optimizers = [i \in 1..Len(w.optimizers) |->
                    IF i <= nZip /\ ~w.self.update_step_fns[i]
                    THEN [g \in 1..Len(w.optimizers[i]) |->
                            [w.optimizers[i][g] EXCEPT !.lr = RDiv(@, w.self.lr_factor)]]
                    ELSE w.optimizers[i]]]
    ELSE [w EXCEPT
            !.optimizers = [i \in 1..Len(w.optimizers) |->
                IF i <= Len(w.self.optim_lrs)
                THEN [g \in 1..Len(w.optimizers[i]) |->
                        [w.optimizers[i][g] EXCEPT !.lr = w.self.optim_lrs[i]]]
                ELSE w.optimizers[i]]]

-----------------------------------------------------------------------------
(* restore_init.                                                           *)

\* param.data = param_init_values.data * values_to_update.to(param.dtype) + param.data
RestoreValues(param, param_init_values, values_to_update) ==
    [i \in 1..Len(param) |->
        param_init_values[i] * (IF values_to_update[i] THEN 1 ELSE 0) + param[i]]

\* lines 491-492: values_to_update = (param.data == 0.0)
RestoreUnmasked(param, param_init_values) ==
    RestoreValues(param, param_init_values, [i \in 1..Len(param) |-> param[i] = 0])

\* RestoreMasked with the mask left out of values_to_update
RestoreMasked_IgnoresMask(param, param_init_values, mask) ==
    RestoreValues(param, param_init_values, [i \in 1..Len(param) |-> param[i] = 0])

\* lines 502-503: values_to_update = torch.logical_and(param.data == 0.0, mask)
RestoreMasked(param, param_init_values, mask) ==
    RestoreValues(param, param_init_values, [i \in 1..Len(param) |-> param[i] = 0 /\ mask[i]])

\* lines 484-492: the loop over init_values.items() when current_masks is None;
\* the result is the parameters and whether a lookup raised
RECURSIVE RestoreLoopNoMask(_, _, _, _)
RestoreLoopNoMask(params, names, w, init_values) ==
    IF names = <<>> THEN [params |-> params, raised |-> FALSE]
    ELSE LET full_name == Head(names)
             snip == w.self.snip_module_name
             drop_len == IF snip # "" THEN Len(snip) + 1 ELSE 0
         IN  IF ~StartsWith(full_name, snip)
             THEN RestoreLoopNoMask(params, Tail(names), w, init_values)
             ELSE IF Dots(full_name) = {}
             THEN [params |-> params, raised |-> TRUE]
             ELSE LET m == StrFrom(RSplitModule(full_name), drop_len)
                      n == RSplitName(full_name)
                      param == ParamOf(w.self.module_to_snip, m, n)
                  IN  IF param = AttributeError
                      THEN [params |-> params, raised |-> TRUE]
                      ELSE RestoreLoopNoMask(
                              [params EXCEPT ![param] = RestoreUnmasked(@, init_values[full_name])],
                              Tail(names), w, init_values)

\* lines 496-503: the loop over current_masks.items()
RECURSIVE RestoreLoopMasked(_, _, _, _)
RestoreLoopMasked(params, names, w, init_values) ==
    IF names = <<>> THEN [params |-> params, raised |-> FALSE]
    ELSE LET full_name == Head(names)
             snip == w.self.snip_module_name
             prefix == IF snip # "" THEN snip \o "." ELSE ""
             mask == Get(w.self.current_masks)[full_name]
         IN  IF (prefix \o full_name) \notin DOMAIN init_values \/ Dots(full_name) = {}
             THEN [params |-> params, raised |-> TRUE]
             ELSE LET param == ParamOf(w.self.module_to_snip, RSplitModule(full_name),
                                       RSplitName(full_name))
                  IN  IF param = AttributeError
                      THEN [params |-> params, raised |-> TRUE]
                      ELSE RestoreLoopMasked(
                              [params EXCEPT ![param] =
                                  RestoreMasked(@, init_values[prefix \o full_name], mask)],
                              Tail(names), w, init_values)

\* restore_init(): the world after it, and whether it raised
restore_init(w) ==
    LET init_values == Get(w.disk.init_values)
        r == IF IsNone(w.self.current_masks)
             THEN RestoreLoopNoMask(w.module.params, Keys(init_values), w, init_values)
             ELSE RestoreLoopMasked(w.module.params, Keys(Get(w.self.current_masks)), w,
                                    init_values)
    IN  [w |-> [w EXCEPT !.module.params = r.params], raised |-> r.raised]

-----------------------------------------------------------------------------
(* step, resume_from, train.                                               *)

Ok(w) == [w |-> w, raised |-> FALSE]

\* lines 277-284
StepSparsity(w, new_sparsity) ==
    IF new_sparsity # 0
    THEN update_lrs([w EXCEPT !.self.current_masks = Some(load_masks(w, new_sparsity))],
                    new_sparsity)
    ELSE reset_lrs([w EXCEPT !.self.current_masks = NoneV])

\* step that leaves current_sparsity at its old value
step_StaleSparsity(w) ==
    LET w1 == [w EXCEPT !.self.epoch = @ + 1]
    IN  IF w1.self.epoch \in DOMAIN w1.self.schedule
        THEN LET new_sparsity == w1.self.schedule[w1.self.epoch]
                 w3 == StepSparsity(w1, new_sparsity)
                 w4 == IF w3.self.forward_mask THEN update_hooks(w3, new_sparsity) ELSE w3
             IN  IF w4.self.restore_init_values THEN restore_init(w4) ELSE Ok(w4)
        ELSE Ok(w1)

\* step that resets the lrs and clears the mask at an epoch without an entry
step_ResetsOffSchedule(w) ==
    LET w1 == [w EXCEPT !.self.epoch = @ + 1]
    IN  IF w1.self.epoch \in DOMAIN w1.self.schedule
        THEN LET new_sparsity == w1.self.schedule[w1.self.epoch]
                 w2 == [w1 EXCEPT !.self.current_sparsity = new_sparsity]
                 w3 == StepSparsity(w2, new_sparsity)
                 w4 == IF w3.self.forward_mask THEN update_hooks(w3, new_sparsity) ELSE w3
             IN  IF w4.self.restore_init_values THEN restore_init(w4) ELSE Ok(w4)
        ELSE Ok(reset_lrs([w1 EXCEPT !.self.current_masks = NoneV]))

\* step()
step(w) ==
    LET w1 == [w EXCEPT !.self.epoch = @ + 1]
    IN  IF w1.self.epoch \in DOMAIN w1.self.schedule
        THEN LET new_sparsity == w1.self.schedule[w1.self.epoch]
                 w2 == [w1 EXCEPT !.self.current_sparsity = new_sparsity]
                 w3 == StepSparsity(w2, new_sparsity)
                 w4 == IF w3.self.forward_mask THEN update_hooks(w3, new_sparsity) ELSE w3
             IN  IF w4.self.restore_init_values THEN restore_init(w4) ELSE Ok(w4)
        ELSE Ok(w1)

\* resume_from(epoch, optimizers, schedulers), called with the optimizers and schedulers
\* the controller was trained with
resume_from(w, epoch) ==
    LET w1 == [w EXCEPT !.self.epoch = epoch]
    IN  update_hooks(w1, get_sparsity(w1.self.schedule, epoch))

Range(f) == {f[x] : x \in DOMAIN f}

\* lines 138-164: the arguments become fields
TrainAssign(w, args) ==
    [w EXCEPT
        !.optimizers = args.optimizers,
        !.schedulers = args.schedulers,
        !.self.schedule = args.schedule,
        !.self.current_sparsity = args.schedule[0],
        !.self.snip_module_name = args.snip_module_name,
        !.self.step_fns = [i \in 1..Len(args.schedulers) |-> args.schedulers[i].step],
        !.self.forward_mask = args.forward_mask,
        !.self.scale_lr = args.scale_lr,
        !.self.scale_lr_by_param = args.scale_lr_by_param,
        !.self.max_lr_scaling = args.max_lr_scaling,
        !.self.max_param_sparsity = args.max_param_sparsity,
        !.self.exclude_params = args.exclude_params,
        !.self.restore_init_values = args.restore_init_values,
        !.self.resume_epoch = args.resume_epoch,
        !.self.optim_lrs = args.optim_lrs,
        !.self.track_all_params_lr = args.track_all_params_lr,
        !.self.module_to_snip = get_module_to_snip(args.snip_module_name)]

\* lines 172-181: init_values.pt is loaded (and, on a fresh start, put into the model)
\* or written from the model
TrainInitValues(w) ==
    IF ~IsNone(w.disk.init_values)
    THEN [w EXCEPT
            !.module.params = IF w.self.resume_epoch = 0 THEN Get(w.disk.init_values) ELSE @,
            !.self.init_values = w.disk.init_values]
    ELSE [w EXCEPT
            !.disk.init_values = Some(w.module.params),
            !.self.init_values = Some(w.module.params)]

\* MissingSparsities that looks at the starting sparsity alone
MissingSparsities_StartOnly(w) ==
    {sparsity \in {w.self.schedule[0]} :
        /\ sparsity # 0
        /\ MasksPath(sparsity, w.self.max_param_sparsity) \notin DOMAIN w.disk.masks}

\* lines 183-190
MissingSparsities(w) ==
    {sparsity \in Range(w.self.schedule) :
        /\ sparsity # 0
        /\ MasksPath(sparsity, w.self.max_param_sparsity) \notin DOMAIN w.disk.masks}

\* TrainMasks that computes the gradients whether or not total_grads.pt exists
TrainMasks_AlwaysComputes(w) ==
    LET missing == MissingSparsities(w)
        total_grads == compute_gradients(w.self.snip_module_name, w.self.exclude_params)
        failing == {sparsity \in missing : ~KthInRange(sparsity, total_grads)}
        created == {sparsity \in missing : \A f \in failing : sparsity < f}
        paths == {MasksPath(sparsity, w.self.max_param_sparsity) : sparsity \in created}
    IN  IF missing = {} THEN Ok(w)
        ELSE [w |-> [w EXCEPT
                        !.disk.total_grads = Some(total_grads),
                        !.disk.masks = [path \in DOMAIN @ \cup paths |->
                            IF path \in paths
                            THEN create_masks(path[1], total_grads, w.self.max_param_sparsity)
                            ELSE @[path]]],
              raised |-> failing # {}]

\* lines 192-209: the gradients are loaded or computed and saved, then every missing
\* mask file is created in ascending order of sparsity, until create_masks raises
TrainMasks(w) ==
    LET missing == MissingSparsities(w)
        total_grads == IF ~IsNone(w.disk.total_grads)
                       THEN Get(w.disk.total_grads)
                       ELSE compute_gradients(w.self.snip_module_name, w.self.exclude_params)
        failing == {sparsity \in missing : ~KthInRange(sparsity, total_grads)}
        created == {sparsity \in missing : \A f \in failing : sparsity < f}
        paths == {MasksPath(sparsity, w.self.max_param_sparsity) : sparsity \in created}
    IN  IF missing = {} THEN Ok(w)
        ELSE [w |-> [w EXCEPT
                        !.disk.total_grads = Some(total_grads),
                        !.disk.masks = [path \in DOMAIN @ \cup paths |->
                            IF path \in paths
                            THEN create_masks(path[1], total_grads, w.self.max_param_sparsity)
                            ELSE @[path]]],
              raised |-> failing # {}]

\* lines 213-221: the index of the first group whose lr is optim_lr, or -1
TrackPgIndices(w) ==
    [i \in 1..Len(w.optimizers) |->
        LET hits == {g \in 1..Len(w.optimizers[i]) :
                        /\ ~w.self.track_all_params_lr
                        /\ i <= Len(w.self.optim_lrs)
                        /\ w.optimizers[i][g].lr = w.self.optim_lrs[i]}
        IN  IF hits = {} THEN -1
            ELSE (CHOOSE g \in hits : \A h \in hits : g <= h) - 1]

\* lines 223-230; CLOSED_FORM_LR_SCHEDULERS are the schedulers of kind "closed"
TrainFactors(w) ==
    [w EXCEPT
        !.self.track_pg_indices = TrackPgIndices(w),
        !.self.update_step_fns = [i \in 1..Len(w.schedulers) |-> w.schedulers[i].kind = "closed"],
        !.self.optim_lr_factors =
            IF w.self.scale_lr_by_param
            THEN [o \in 1..Len(w.optimizers) |-> [g \in 1..Len(w.optimizers[o]) |-> ROne]]
            ELSE @]

\* lines 238-247: the fresh start at a nonzero sparsity
TrainFresh(w) ==
    LET start_sparsity == w.self.schedule[0]
        w1 == [w EXCEPT !.self.current_masks = Some(load_masks(w, start_sparsity))]
        w2 == update_lrs(w1, start_sparsity)
    IN  IF w2.self.forward_mask
        THEN register_forward_pre_hook(w2, w2.self.current_masks)
        ELSE w2

\* lines 233-247
TrainStart(w) ==
    IF w.self.schedule[0] # 0
    THEN IF w.optimizers = <<>>
         THEN [w |-> w, raised |-> TRUE]
         ELSE IF w.self.resume_epoch # 0
              THEN Ok(resume_from(w, w.self.resume_epoch))
              ELSE Ok(TrainFresh(w))
    ELSE Ok(w)

\* train with the test for key 0 made after the schedule is stored
train_LateKeyTest(w, args) ==
    IF 0 \notin DOMAIN args.schedule
    THEN [w |-> [w EXCEPT !.self.schedule = args.schedule], raised |-> TRUE]
    ELSE LET r == TrainMasks(TrainInitValues(TrainAssign(w, args)))
         IN  IF r.raised THEN r ELSE TrainStart(TrainFactors(r.w))

\* train(schedule, model, ..., optimizers, schedulers, ...); line 138 is
\* assert 0 in schedule
train(w, args) ==
    IF 0 \notin DOMAIN args.schedule
    THEN [w |-> w, raised |-> TRUE]
    ELSE LET r == TrainMasks(TrainInitValues(TrainAssign(w, args)))
         IN  IF r.raised THEN r ELSE TrainStart(TrainFactors(r.w))

-----------------------------------------------------------------------------
(* What the training loop does between epochs: scheduler steps and forward  *)
(* passes.                                                                  *)

\* LambdaLR's multiplier at an epoch (a closed form of the step count)
LrLambda(last_epoch) == Rat(1, last_epoch + 1)
\* the decay of a chainable scheduler (ExponentialLR's gamma)
Gamma == <<1, 2>>

\* scheduler.get_lr(): a closed-form scheduler computes from base_lrs and last_epoch, a
\* chainable one from the groups' stored lr
get_lr(scheduler, optimizer) ==
    IF scheduler.kind = "closed"
    THEN [g \in 1..Len(scheduler.base_lrs) |-> RMul(scheduler.base_lrs[g], LrLambda(scheduler.last_epoch))]
    ELSE [g \in 1..Len(optimizer) |-> RMul(optimizer[g].lr, Gamma)]

\* lines 742-745
ScaleValues(values, lr_factor, lr_factors) ==
    IF ~IsNone(lr_factor)
    THEN [g \in 1..Len(values) |-> RMul(Get(lr_factor), values[g])]
    ELSE IF ~IsNone(lr_factors)
         THEN [g \in 1..Min2(Len(values), Len(Get(lr_factors))) |->
                    RMul(Get(lr_factors)[g], values[g])]
         ELSE values

\* scheduler_step(self, lr_factor=..., lr_factors=...) on scheduler i; the scheduler's
\* own step method is the same without factors, and schedulers[i] steps optimizers[i]
scheduler_step(w, i, lr_factor, lr_factors) ==
    LET sch == [w.schedulers[i] EXCEPT !.last_epoch = @ + 1]
        values == ScaleValues(get_lr(sch, w.optimizers[i]), lr_factor, lr_factors)
    IN  [w EXCEPT
            !.schedulers[i] = sch,
            !.optimizers[i] = [g \in 1..Len(@) |->
                IF g <= Len(values) THEN [@[g] EXCEPT !.lr = values[g]] ELSE @[g]]]

\* scheduler.step(): whatever is bound to the attribute
call_step(w, i) ==
    scheduler_step(w, i, w.schedulers[i].step.lr_factor, w.schedulers[i].step.lr_factors)

\* the hook of get_forward_hook(masks), run on the parameters of module_to_snip
RECURSIVE HookLoop(_, _, _, _)
HookLoop(params, names, masks, module_to_snip) ==
    IF names = <<>> THEN [params |-> params, raised |-> FALSE]
    ELSE LET full_name == Head(names)
             param == IF Dots(full_name) = {} THEN AttributeError
                      ELSE ParamOf(module_to_snip, RSplitModule(full_name), RSplitName(full_name))
         IN  IF param = AttributeError
             THEN [params |-> params, raised |-> TRUE]
             ELSE HookLoop([params EXCEPT ![param] =
                                [i \in 1..Len(@) |-> @[i] * (IF masks[full_name][i] THEN 1 ELSE 0)]],
                           Tail(names), masks, module_to_snip)

get_forward_hook(params, masks, module_to_snip) ==
    IF IsNone(masks)
    THEN [params |-> params, raised |-> TRUE]
    ELSE HookLoop(params, Keys(Get(masks)), Get(masks), module_to_snip)

\* a forward pass of module_to_snip runs its forward pre-hooks in registration order
RECURSIVE RunHooks(_, _, _)
RunHooks(params, hooks, module_to_snip) ==
    IF hooks = {} THEN [params |-> params, raised |-> FALSE]
    ELSE LET h == CHOOSE x \in hooks : \A y \in hooks : x.id <= y.id
             r == get_forward_hook(params, h.masks, module_to_snip)
         IN  IF r.raised THEN r ELSE RunHooks(r.params, hooks \ {h}, module_to_snip)

forward(w) ==
    LET r == RunHooks(w.module.params, w.module.hooks, w.self.module_to_snip)
    IN  [w |-> [w EXCEPT !.module.params = r.params], raised |-> r.raised]

-----------------------------------------------------------------------------
(* The inputs of train().                                                   *)

Sparsities == {0, 50, 75}

\* the schedules: an entry for epoch 0 and for any of the epochs 1..MaxKey
Schedules ==
    UNION {[({0} \cup K) -> Sparsities] : K \in SUBSET (1..MaxKey)}

Group(name, lr) == [name |-> name, lr |-> lr]

\* one optimizer holding one named group per parameter, every group with the same lr
OneOptimizer(lr) ==
    << <<Group("enc.l.w", lr), Group("enc.m.w", lr), Group("enc.norm.w", lr),
         Group("dec.l.w", lr)>> >>

\* one optimizer for the encoder and one for the decoder
TwoOptimizers(lr) ==
    << <<Group("enc.l.w", lr), Group("enc.m.w", lr), Group("enc.norm.w", lr)>>,
       <<Group("dec.l.w", lr)>> >>

\* a scheduler constructed on an optimizer: base_lrs are the groups' lr at construction
NewScheduler(kind, optimizer) ==
    [kind |-> kind,
     base_lrs |-> [g \in 1..Len(optimizer) |-> optimizer[g].lr],
     last_epoch |-> 0,
     step |-> BoundStep]

\* one scheduler for each of the first Len(kinds) optimizers
NewSchedulers(kinds, optims) ==
    [i \in 1..Len(kinds) |-> NewScheduler(kinds[i], optims[i])]

\* the optimizers, the schedulers and the optim_lrs a caller passes
LrSetups ==
    {[optimizers |-> o, schedulers |-> NewSchedulers(k, o), optim_lrs |-> l] :
        o \in {OneOptimizer(ROne)},
        k \in {<<>>, <<"closed">>, <<"chain">>},
        l \in {<<ROne>>, << <<1, 2>> >>}}
    \cup
    {[optimizers |-> o, schedulers |-> NewSchedulers(k, o), optim_lrs |-> l] :
        o \in {TwoOptimizers(ROne)},
        k \in {<<>>, <<"closed", "chain">>},
        l \in {<<ROne>>, <<ROne, ROne>>}}

DefaultExclude == {"embed", "norm"}

\* the arguments of the controller specification: every schedule, forward_mask,
\* restore_init_values and resume_epoch; one optimizer, no scheduler
CtlArgs ==
    [schedule : Schedules,
     forward_mask : BOOLEAN,
     restore_init_values : BOOLEAN,
     resume_epoch : 0..MaxEpoch,
     scale_lr : BOOLEAN,
     scale_lr_by_param : {FALSE},
     max_lr_scaling : {<<2, 1>>},
     max_param_sparsity : {100},
     exclude_params : {DefaultExclude},
     snip_module_name : {"enc"},
     track_all_params_lr : {FALSE},
     optim_lrs : {<<ROne>>},
     optimizers : {OneOptimizer(ROne)},
     schedulers : {<<>>}]

\* <<scale_lr, scale_lr_by_param>>
LrModes == {<<FALSE, FALSE>>, <<TRUE, FALSE>>, <<TRUE, TRUE>>}

\* the arguments of the learning-rate specification: every schedule, scaling mode (no
\* scaling, uniform, or per-parameter with scale_lr left on), max_lr_scaling and setup
\* of optimizers and schedulers; a fresh start
LrArgs ==
    {[schedule |-> sch, forward_mask |-> TRUE, restore_init_values |-> TRUE,
      resume_epoch |-> 0, scale_lr |-> md[1], scale_lr_by_param |-> md[2],
      max_lr_scaling |-> mx, max_param_sparsity |-> 100,
      exclude_params |-> DefaultExclude, snip_module_name |-> "enc",
      track_all_params_lr |-> FALSE, optim_lrs |-> su.optim_lrs,
      optimizers |-> su.optimizers, schedulers |-> su.schedulers] :
        sch \in Schedules, md \in LrModes,
        mx \in {<<2, 1>>, <<100, 1>>}, su \in LrSetups}

-----------------------------------------------------------------------------
(* The state after SniperTraining(sniper_dir) on a model just built and an  *)
(* empty sniper_dir: lines 28-67.                                           *)

InitSelf ==
    [schedule |-> <<>>, snip_module_name |-> "", forward_mask |-> TRUE, scale_lr |-> TRUE,
     scale_lr_by_param |-> FALSE, max_lr_scaling |-> <<2, 1>>, max_param_sparsity |-> 100,
     exclude_params |-> {}, restore_init_values |-> TRUE, resume_epoch |-> 0,
     optim_lrs |-> <<>>, track_all_params_lr |-> FALSE,
     epoch |-> 0, init_values |-> NoneV, current_sparsity |-> 0, current_masks |-> NoneV,
     module_to_snip |-> "", forward_hook |-> NoneV, track_pg_indices |-> <<>>,
     step_fns |-> <<>>, update_step_fns |-> <<>>, lr_factor |-> ROne,
     optim_lr_factors |-> <<>>]

EmptyDisk == [init_values |-> NoneV, total_grads |-> NoneV, masks |-> <<>>]

Init ==
    /\ pc = "new"
    /\ self = InitSelf
    /\ optimizers = <<>>
    /\ schedulers = <<>>
    /\ module = [params |-> BuiltValues, hooks |-> {}]
    /\ disk = EmptyDisk
    /\ hist = [resumed |-> FALSE, steps |-> 0, optimizers |-> <<>>]
    /\ call = NoneV

\* the world r.w becomes the state; an exception ends the run
Commit(r) ==
    /\ self' = r.w.self
    /\ optimizers' = r.w.optimizers
    /\ schedulers' = r.w.schedulers
    /\ module' = r.w.module
    /\ disk' = r.w.disk
    /\ pc' = IF r.raised THEN "raised" ELSE "trained"

Train(args) ==
    /\ pc = "new"
    /\ Commit(train(World, args))
    /\ hist' = [resumed |-> args.resume_epoch # 0, steps |-> 0, optimizers |-> args.optimizers]
    /\ UNCHANGED call

TrainCtl == \E args \in CtlArgs : Train(args)
TrainLr == \E args \in LrArgs : Train(args)

Step ==
    /\ pc = "trained"
    /\ self.epoch < MaxEpoch
    /\ Commit(step(World))
    /\ hist' = IF hist.resumed THEN hist ELSE [hist EXCEPT !.steps = @ + 1]
    /\ UNCHANGED call

ResumeFrom ==
    /\ pc = "trained"
    /\ \E epoch \in 0..MaxEpoch : Commit(Ok(resume_from(World, epoch)))
    /\ hist' = [hist EXCEPT !.resumed = TRUE]
    /\ UNCHANGED call

SchedulerStep ==
    /\ pc = "trained"
    /\ \E i \in 1..Len(schedulers) :
        /\ schedulers[i].last_epoch < MaxSchedSteps
        /\ Commit(Ok(call_step(World, i)))
    /\ UNCHANGED <<hist, call>>

Forward ==
    /\ pc = "trained"
    /\ Commit(forward(World))
    /\ UNCHANGED <<hist, call>>

\* the controller: train, then step, resume_from and forward passes in any order
Next == TrainCtl \/ Step \/ ResumeFrom \/ Forward
Spec == Init /\ [][Next]_vars

\* the learning-rate coordinator: a fresh train, then step and scheduler steps in any
\* order (no operation on learning rates reads the parameters a forward pass changes)
NextLr == TrainLr \/ Step \/ SchedulerStep
SpecLr == Init /\ [][NextLr]_vars

-----------------------------------------------------------------------------
(* Claims about the controller (Spec).                                      *)

\* the sparsity the schedule has in effect at the current epoch
EffectiveSparsity == get_sparsity(self.schedule, self.epoch)

\* hook h applies the MaskSet of the sparsity in effect
HookIsCurrent(h) ==
    /\ EffectiveSparsity # 0
    /\ ~IsNone(h.masks)
    /\ Get(h.masks) = load_masks(World, EffectiveSparsity)

\* C1: after train() and any step() and resume_from() calls, at most one forward
\* pre-hook is registered on the pruned submodule, and a registered hook applies the
\* MaskSet of the sparsity in effect (never None, never an earlier sparsity's MaskSet).
C1_OneCurrentHook ==
    pc = "trained" =>
        /\ Cardinality(module.hooks) <= 1
        /\ \A h \in module.hooks : HookIsCurrent(h)

\* C2: a fresh train() leaves (epoch 0, sparsity schedule[0]), every step() adds one to
\* the epoch, and after k step() calls the current sparsity is the schedule's value at
\* the largest key <= k.
C2_FollowsSchedule ==
    (pc = "trained" /\ ~hist.resumed) =>
        /\ self.epoch = hist.steps
        /\ self.current_sparsity = get_sparsity(self.schedule, hist.steps)

\* a fresh run has stepped over a change of sparsity and an epoch without an entry
C2_Witness ==
    /\ pc = "trained" /\ ~hist.resumed
    /\ hist.steps = 2
    /\ DOMAIN self.schedule = {0, 1}
    /\ self.schedule[0] = 50
    /\ self.current_sparsity = 75

\* the MaskSet a controller at sparsity s should hold: that of s, or none at 0
MaskSetOf(w, s) == IF s = 0 THEN NoneV ELSE Some(load_masks(w, s))

\* the step from this state to the next is resume_from(e, optimizers, schedulers)
IsResumeFrom(e) == pc = "trained" /\ Commit(Ok(resume_from(World, e)))

\* C11: after resume_from(e, ...) the epoch is e, the current MaskSet is the MaskSet of
\* the sparsity in effect at e (none at 0), a hook applying it is installed iff that
\* sparsity is nonzero, and no optimizer lr and no stored factor has changed.
C11_ResumeRestoresBindings ==
    [][\A e \in 0..MaxEpoch : IsResumeFrom(e) =>
        LET s == get_sparsity(self.schedule, e)
        IN  /\ self'.epoch = e
            /\ self'.current_masks = MaskSetOf(World, s)
            /\ (s = 0 => module'.hooks = {})
            /\ (s # 0 => /\ Cardinality(module'.hooks) = 1
                         /\ \A h \in module'.hooks : h.masks = MaskSetOf(World, s))
            /\ optimizers' = optimizers
            /\ self'.lr_factor = self.lr_factor
            /\ self'.optim_lr_factors = self.optim_lr_factors]_vars

\* C12: a train() with a nonzero resume_epoch that returns leaves the epoch at
\* resume_epoch and every optimizer lr and stored factor as passed in, whatever
\* schedule[0] is.
C12_ResumeEpochResumes ==
    [][(pc = "new" /\ pc' = "trained" /\ self'.resume_epoch # 0) =>
        /\ self'.epoch = self'.resume_epoch
        /\ optimizers' = hist'.optimizers
        /\ self'.lr_factor = ROne]_vars

\* the step from this state to the next is step()
IsStep == pc = "trained" /\ Commit(step(World))

\* step() takes the schedule to sparsity 0
StepsToZero ==
    /\ self.epoch + 1 \in DOMAIN self.schedule
    /\ self.schedule[self.epoch + 1] = 0

\* C13: after a step() that transitions to sparsity 0 there is no current mask, every
\* lr is reset and no forward hook is registered, whatever forward_mask is and
\* whether the run was fresh or resumed.
C13_ZeroClearsAll ==
    [][(IsStep /\ StepsToZero) =>
        /\ self'.current_masks = NoneV
        /\ self'.current_sparsity = 0
        /\ \A o \in 1..Len(optimizers') : \A g \in 1..Len(optimizers'[o]) :
                optimizers'[o][g].lr = self.optim_lrs[o]
        /\ module'.hooks = {}]_vars

\* C14: with forward_mask false no forward hook is registered after train(), step() or
\* resume_from().
C14_NoHookWithoutForwardMask ==
    (pc = "trained" /\ ~self.forward_mask) => module.hooks = {}

-----------------------------------------------------------------------------
(* Claims about the learning rates (SpecLr).                                *)

\* the lr the caller configured for group g of optimizer o
Nominal(o, g) == hist.optimizers[o][g].lr

\* the last schedule key the run has reached
LastKey == CHOOSE k \in DOMAIN self.schedule :
    k <= self.epoch /\ \A j \in DOMAIN self.schedule : j <= self.epoch => j <= k

\* the last transition of the schedule was made by step() and went to sparsity 0
SteppedToZero ==
    /\ pc = "trained"
    /\ LastKey >= 1
    /\ self.schedule[LastKey] = 0
    /\ self.current_sparsity = 0

\* optim_lrs has, for every optimizer, the lr its groups were configured with
OptimLrsAreNominal ==
    /\ Len(self.optim_lrs) >= Len(optimizers)
    /\ \A o \in 1..Len(optimizers) : \A g \in 1..Len(optimizers[o]) :
            self.optim_lrs[o] = Nominal(o, g)

C4_UniformLrTracksSparsity ==
    (/\ pc = "trained" /\ schedulers = <<>>
     /\ self.scale_lr /\ ~self.scale_lr_by_param
     /\ OptimLrsAreNominal) =>
        \A o \in 1..Len(optimizers) : \A g \in 1..Len(optimizers[o]) :
            optimizers[o][g].lr =
                RMul(Nominal(o, g), scaling_fn(World, Rat(self.current_sparsity, 100)))

\* C5: whenever step() transitions to sparsity 0, lr_factor and every entry of
\* optim_lr_factors are 1.
C5_FactorsNeutralAtZero ==
    SteppedToZero =>
        /\ self.lr_factor = ROne
        /\ \A o \in 1..Len(self.optim_lr_factors) :
                \A g \in 1..Len(self.optim_lr_factors[o]) : self.optim_lr_factors[o][g] = ROne

\* scheduler i's step attribute is the replacement installed by update_lrs
Intercepted(i) == schedulers[i].step.fn = "scheduler_step"

\* the factor each group of optimizer i has at the sparsity in effect
CurrentFactors(i) ==
    IF self.scale_lr_by_param
    THEN NewOptimLrFactors(World, self.current_sparsity)[i]
    ELSE [g \in 1..Len(optimizers[i]) |-> NewLrFactor(World, self.current_sparsity)]

\* no sparsity is scheduled twice: every transition changes the sparsity
DistinctSparsities ==
    \A j, k \in DOMAIN self.schedule : j # k => self.schedule[j] # self.schedule[k]

\* C6: every step of an intercepted closed-form scheduler writes, to each group, the
\* scheduler's closed-form value times the group's current factor (stated for
\* schedules whose every transition changes the sparsity).
C6_InterceptedStepUsesCurrentFactor ==
    [][\A i \in 1..Len(schedulers) :
        (/\ Intercepted(i)
         /\ DistinctSparsities
         /\ schedulers'[i].last_epoch = schedulers[i].last_epoch + 1) =>
            \A g \in 1..Len(optimizers[i]) :
                optimizers'[i][g].lr =
                    RMul(CurrentFactors(i)[g], get_lr(schedulers'[i], optimizers[i])[g])]_vars

\* C7: under per-parameter scaling, once a step() to sparsity 0 has run reset_lrs, a
\* closed-form scheduler's step is the step captured in train(), and calling it does
\* what the step of a scheduler never intercepted does from the same state.
C7_ResetRestoresStep ==
    \A i \in 1..Len(schedulers) :
        (SteppedToZero /\ self.scale_lr_by_param /\ schedulers[i].kind = "closed") =>
            /\ schedulers[i].step = self.step_fns[i]
            /\ schedulers[i].step = BoundStep
            /\ call_step(World, i) = scheduler_step(World, i, NoneV, NoneV)

\* a closed-form scheduler intercepted by train() at sparsity 50 under per-parameter
\* scaling, stepped, then reset by the step() to sparsity 0
C7_Witness ==
    /\ SteppedToZero /\ self.scale_lr_by_param
    /\ self.schedule[0] = 50
    /\ Len(schedulers) >= 1 /\ schedulers[1].kind = "closed"
    /\ schedulers[1].last_epoch >= 1
    /\ self.optim_lr_factors[1][1] = <<2, 1>>
    /\ schedulers[1].step = BoundStep

\* Gamma to the power n: what n steps of a chainable scheduler multiply an lr by
RECURSIVE GammaPow(_)
GammaPow(n) == IF n = 0 THEN ROne ELSE RMul(Gamma, GammaPow(n - 1))

\* scheduler i is chainable: update_lrs scales its optimizer's live lr
Chainable(i) == i <= Len(schedulers) /\ schedulers[i].kind = "chain"

\* C21: for an optimizer paired with a chainable scheduler, once step() has
\* transitioned to sparsity 0 the scaling is exactly undone in both scaling modes:
\* each group's lr is what the scheduler alone makes of the configured lr.
C21_ChainableResetUndoes ==
    \A i \in 1..Len(optimizers) :
        (SteppedToZero /\ Chainable(i)) =>
            \A g \in 1..Len(optimizers[i]) :
                optimizers[i][g].lr = RMul(Nominal(i, g), GammaPow(schedulers[i].last_epoch))

\* the group's parameter belongs to the pruned submodule
InSnipModule(name) ==
    self.snip_module_name = "" \/ StartsWith(name, self.snip_module_name \o ".")

\* the group's parameter name local to the pruned submodule
LocalName(name) ==
    IF self.snip_module_name = "" THEN name
    ELSE StrFrom(name, Len(self.snip_module_name) + 1)

\* the group's parameter is in the pruned submodule and has a mask that keeps something
HasDensity(name) ==
    /\ ~IsNone(self.current_masks)
    /\ InSnipModule(name)
    /\ LocalName(name) \in DOMAIN Get(self.current_masks)
    /\ CountTrue(Get(self.current_masks)[LocalName(name)]) # 0

\* the per-parameter factor of a group with a mask: scaling_fn(1 - density)
DensityFactor(name) ==
    LET mask == Get(self.current_masks)[LocalName(name)]
    IN  scaling_fn(World, RSub(ROne, Rat(CountTrue(mask), Len(mask))))

\* C22: with scale_lr and scale_lr_by_param both enabled, at a nonzero sparsity the
\* factor of every group with a mask is the uniform factor for the sparsity times the
\* group's own factor for its mask density.
C22_FactorsCompose ==
    (/\ pc = "trained"
     /\ self.scale_lr /\ self.scale_lr_by_param
     /\ self.current_sparsity # 0) =>
        \A o \in 1..Len(optimizers) : \A g \in 1..Len(optimizers[o]) :
            HasDensity(optimizers[o][g].name) =>
                self.optim_lr_factors[o][g] =
                    RMul(NewLrFactor(World, self.current_sparsity),
                         DensityFactor(optimizers[o][g].name))

\* C26: with scale_lr and scale_lr_by_param both false, train() leaves every group's
\* lr and every scheduler's step as configured, and no step() changes either.
C26_NoScalingNoChange ==
    [][(/\ pc' = "trained"
        /\ ~self'.scale_lr /\ ~self'.scale_lr_by_param
        /\ pc = "new" \/ IsStep) =>
            /\ \A o \in 1..Len(optimizers') : \A g \in 1..Len(optimizers'[o]) :
                    optimizers'[o][g].lr =
                        IF pc = "new" THEN hist'.optimizers[o][g].lr ELSE optimizers[o][g].lr
            /\ \A i \in 1..Len(schedulers') :
                    schedulers'[i].step = IF pc = "new" THEN BoundStep ELSE schedulers[i].step]_vars

-----------------------------------------------------------------------------
(* step() at an epoch the schedule has no entry for (SpecFull).             *)

\* the learning-rate arguments with one optimizer, optim_lrs its lr and the default
\* max_lr_scaling
FullArgs ==
    {args \in LrArgs :
        /\ Len(args.optimizers) = 1
        /\ args.optim_lrs = <<ROne>>
        /\ args.max_lr_scaling = <<2, 1>>}

TrainFull == \E args \in FullArgs : Train(args)

\* the whole training loop: a fresh train, then step, scheduler steps and forward
\* passes in any order
NextFull == TrainFull \/ Step \/ SchedulerStep \/ Forward
SpecFull == Init /\ [][NextFull]_vars

\* C20: a step() to an epoch that is not a key of the schedule changes the epoch
\* counter and nothing else: not the sparsity, the mask, the hooks, any lr, any
\* scheduler, the stored factors, the parameters or the files.
C20_OffScheduleStepOnlyCounts ==
    [][(IsStep /\ self.epoch + 1 \notin DOMAIN self.schedule) =>
        /\ self' = [self EXCEPT !.epoch = @ + 1]
        /\ optimizers' = optimizers
        /\ schedulers' = schedulers
        /\ module' = module
        /\ disk' = disk]_vars

\* an off-schedule step() taken at sparsity 50 with scaled lrs, an intercepted
\* scheduler that has stepped, a registered hook, and parameters a forward pass has
\* masked
C20_Witness ==
    /\ pc = "trained"
    /\ self.epoch = 1 /\ DOMAIN self.schedule = {0} /\ self.current_sparsity = 50
    /\ self.lr_factor = <<2, 1>>
    /\ Len(schedulers) = 1 /\ Intercepted(1) /\ schedulers[1].last_epoch = 1
    /\ Cardinality(module.hooks) = 1
    /\ module.params["enc.l.w"] = <<0, 0, 3, 4>>

-----------------------------------------------------------------------------
(* Per-parameter scaling alone (SpecByParam).                               *)

\* the arguments of LrArgs with scale_lr_by_param, scale_lr switched off
ByParamArgs ==
    {[args EXCEPT !.scale_lr = FALSE] : args \in {a \in LrArgs : a.scale_lr_by_param}}

TrainByParam == \E args \in ByParamArgs : Train(args)

NextByParam == TrainByParam \/ Step \/ SchedulerStep
SpecByParam == Init /\ [][NextByParam]_vars

\* C27: under per-parameter scaling with a non-empty snip_module_name, at a nonzero
\* sparsity a group has a density-based factor only if its parameter is in the pruned
\* submodule and its local name is in the current MaskSet; every other group has the
\* default factor.
C27_OnlySubmoduleGroupsScaled ==
    (/\ pc = "trained"
     /\ self.scale_lr_by_param
     /\ self.snip_module_name # ""
     /\ self.current_sparsity # 0) =>
        \A o \in 1..Len(optimizers) : \A g \in 1..Len(optimizers[o]) :
            self.optim_lr_factors[o][g] =
                IF HasDensity(optimizers[o][g].name)
                THEN DensityFactor(optimizers[o][g].name)
                ELSE NewLrFactor(World, self.current_sparsity)

-----------------------------------------------------------------------------
(* create_masks as a function of its arguments (SpecMasks).                 *)

\* the sensitivities of the two prunable parameters, every value in 0..MaxGrad
SmallGrads ==
    {("l.w" :> a @@ "m.w" :> b) : a \in [1..4 -> 0..MaxGrad], b \in [1..2 -> 0..MaxGrad]}

\* a 100-element parameter of which the global threshold at sparsity 50 zeroes 95, the
\* other 90 elements of the module being more sensitive
ScenarioGrads ==
    ("l.w" :> [i \in 1..100 |-> i] @@ "m.w" :> [i \in 1..90 |-> 200 + i])

MaskSparsities == {10, 25, 50, 75, 100}
MaskCaps == {100, 80, 50}

InitMasks ==
    /\ pc = "create_masks"
    /\ \E g \in SmallGrads \cup {ScenarioGrads}, s \in MaskSparsities, c \in MaskCaps :
            call = [sparsity |-> s, total_grads |-> g, max_param_sparsity |-> c,
                    result |-> NoneV]
    /\ self = InitSelf
    /\ optimizers = <<>>
    /\ schedulers = <<>>
    /\ module = [params |-> BuiltValues, hooks |-> {}]
    /\ disk = EmptyDisk
    /\ hist = [resumed |-> FALSE, steps |-> 0, optimizers |-> <<>>]

\* masks = self.create_masks(sparsity, total_grads, max_param_sparsity)
CreateMasksReturns ==
    /\ pc = "create_masks"
    /\ KthInRange(call.sparsity, call.total_grads)
    /\ call' = [call EXCEPT !.result =
                    Some(create_masks(call.sparsity, call.total_grads, call.max_param_sparsity))]
    /\ pc' = "returned"
    /\ UNCHANGED <<self, optimizers, schedulers, module, disk, hist>>

\* torch.kthvalue raises for k = 0
CreateMasksRaises ==
    /\ pc = "create_masks"
    /\ ~KthInRange(call.sparsity, call.total_grads)
    /\ pc' = "raised"
    /\ UNCHANGED <<call, self, optimizers, schedulers, module, disk, hist>>

NextMasks == CreateMasksReturns \/ CreateMasksRaises
SpecMasks == InitMasks /\ [][NextMasks]_vars

Masks == Get(call.result)
FlatGrads == Flatten(call.total_grads, DOMAIN call.total_grads)
\* k = int(sparsity / 100 * N)
NumToPrune == IntPct(call.sparsity, Len(FlatGrads))
TotalFalse(masks, names) == SeqSum([i \in 1..Len(names) |-> CountFalse(masks[names[i]])])

\* no two sensitivity values are equal
DistinctGrads ==
    \A i, j \in 1..Len(FlatGrads) : i # j => FlatGrads[i] # FlatGrads[j]

\* C8: in every MaskSet create_masks produces, each parameter's mask has at most
\* max_param_sparsity/100 of its entries false (stated for sensitivities without ties).
C8_MaskWithinCap ==
    (pc = "returned" /\ DistinctGrads) =>
        \A full_name \in DOMAIN Masks :
            CountFalse(Masks[full_name]) * 100 <= call.max_param_sparsity * Len(Masks[full_name])

\* no value outside the k smallest equals the k-th smallest
NoTieAtThreshold ==
    \/ NumToPrune = Len(FlatGrads)
    \/ kthvalue(FlatGrads, NumToPrune) < kthvalue(FlatGrads, NumToPrune + 1)

\* C9, as claimed: without a cap (max_param_sparsity = 100) the masks have exactly
\* int(s/100*N) false entries in total, ties included.
C9_ExactSparsity ==
    (pc = "returned" /\ call.max_param_sparsity = 100) =>
        TotalFalse(Masks, Keys(Masks)) = NumToPrune

\* C9, amended: without a cap the masks have at least int(s/100*N) false entries in
\* total, and exactly that many when no value outside the k smallest ties with the
\* k-th smallest.
C9_ExactWithoutTies ==
    (pc = "returned" /\ call.max_param_sparsity = 100) =>
        /\ TotalFalse(Masks, Keys(Masks)) >= NumToPrune
        /\ NoTieAtThreshold => TotalFalse(Masks, Keys(Masks)) = NumToPrune

\* half of six values pruned, with ties below the threshold but none at it
C9_Witness ==
    /\ pc = "returned" /\ call.max_param_sparsity = 100 /\ call.sparsity = 50
    /\ call.total_grads = ("l.w" :> <<0, 0, 1, 2>> @@ "m.w" :> <<2, 2>>)
    /\ NoTieAtThreshold
    /\ Masks = ("l.w" :> <<FALSE, FALSE, FALSE, TRUE>> @@ "m.w" :> <<TRUE, TRUE>>)

\* the global threshold zeroes more of the parameter than the cap allows, and the
\* parameter's own threshold keeps none of its elements (lines 404-409)
OverrideKeepsNone(full_name) ==
    LET total_grad == call.total_grads[full_name]
        numel == Len(total_grad)
        threshold == GlobalThreshold(call.sparsity, FlatGrads)
        nonzero == CountTrue([i \in 1..numel |-> total_grad[i] > threshold])
        param_threshold == kthvalue(total_grad, 1 + IntPct(call.max_param_sparsity, numel))
    IN  /\ (numel - nonzero) * 100 > call.max_param_sparsity * numel
        /\ \A i \in 1..numel : ~(total_grad[i] > param_threshold)

\* C23: when the per-parameter override would keep none of a parameter's n elements
\* and the cap is below 100, the parameter's mask has exactly int(cap/100*n) false
\* entries and n - int(cap/100*n) >= 1 true ones, at the positions every invocation
\* with the same inputs chooses.
C23_RandomFillExact ==
    pc = "returned" =>
        \A full_name \in DOMAIN Masks :
            (OverrideKeepsNone(full_name) /\ call.max_param_sparsity < 100) =>
                LET n == Len(call.total_grads[full_name])
                    num_false == IntPct(call.max_param_sparsity, n)
                IN  /\ Len(Masks[full_name]) = n
                    /\ CountFalse(Masks[full_name]) = num_false
                    /\ CountTrue(Masks[full_name]) = n - num_false
                    /\ CountTrue(Masks[full_name]) >= 1
                    /\ Masks[full_name] =
                            create_masks(call.sparsity, call.total_grads,
                                         call.max_param_sparsity)[full_name]

\* a 4-element parameter of all-zero sensitivity under a cap of 50: two positions are
\* kept, the ones the seeded shuffle chooses
C23_Witness ==
    /\ pc = "returned"
    /\ call.max_param_sparsity = 50
    /\ call.sparsity = 50
    /\ call.total_grads = ("l.w" :> <<0, 0, 0, 0>> @@ "m.w" :> <<1, 2>>)
    /\ OverrideKeepsNone("l.w")
    /\ Masks["l.w"] = <<TRUE, FALSE, FALSE, TRUE>>

-----------------------------------------------------------------------------
(* restore_init on any parameter values and any current mask (SpecRestore). *)

\* a controller trained on the encoder, before any mask is current
RestoreArgs ==
    [schedule |-> (0 :> 0 @@ 1 :> 50), forward_mask |-> FALSE, restore_init_values |-> TRUE,
     resume_epoch |-> 0, scale_lr |-> FALSE, scale_lr_by_param |-> FALSE,
     max_lr_scaling |-> <<2, 1>>, max_param_sparsity |-> 100,
     exclude_params |-> DefaultExclude, snip_module_name |-> "enc",
     track_all_params_lr |-> FALSE, optim_lrs |-> <<ROne>>,
     optimizers |-> OneOptimizer(ROne), schedulers |-> <<>>]

Trained ==
    train([self |-> InitSelf, optimizers |-> <<>>, schedulers |-> <<>>,
           module |-> [params |-> BuiltValues, hooks |-> {}], disk |-> EmptyDisk],
          RestoreArgs).w

\* the parameter values training and masking may have left: every element in
\* 0..MaxValue (the decoder's parameter zero or as built)
RestoreParams ==
    {("enc.l.w" :> a @@ "enc.m.w" :> b @@ "enc.norm.w" :> c @@ "dec.l.w" :> d) :
        a \in [1..4 -> 0..MaxValue], b \in [1..2 -> 0..MaxValue],
        c \in [1..1 -> 0..MaxValue], d \in {<<0>>, <<8>>}}

\* no mask, or a MaskSet of the prunable parameters
RestoreMasks ==
    {NoneV} \cup
    {Some("l.w" :> a @@ "m.w" :> b) : a \in [1..4 -> BOOLEAN], b \in {<<TRUE, FALSE>>, <<FALSE, FALSE>>}}

InitRestore ==
    /\ pc = "restore_init"
    /\ \E cm \in RestoreMasks : self = [Trained.self EXCEPT !.current_masks = cm]
    /\ \E pv \in RestoreParams : module = [params |-> pv, hooks |-> {}]
    /\ optimizers = Trained.optimizers
    /\ schedulers = Trained.schedulers
    /\ disk = Trained.disk
    /\ hist = [resumed |-> FALSE, steps |-> 0, optimizers |-> Trained.optimizers]
    /\ call = [before |-> NoneV]

\* self.restore_init()
RestoreInit ==
    /\ pc = "restore_init"
    /\ LET r == restore_init(World)
       IN  /\ module' = r.w.module
           /\ pc' = IF r.raised THEN "raised" ELSE "returned"
    /\ call' = [before |-> Some(module.params)]
    /\ UNCHANGED <<self, optimizers, schedulers, disk, hist>>

NextRestore == RestoreInit
SpecRestore == InitRestore /\ [][NextRestore]_vars

\* element i of parameter p is active: there is no mask and p is in the pruned
\* submodule, or the current mask of p is true at i
ActiveElement(p, i) ==
    LET prefix == self.snip_module_name \o "."
        local == StrFrom(p, Len(prefix))
    IN  /\ StartsWith(p, prefix)
        /\ \/ IsNone(self.current_masks)
           \/ /\ local \in DOMAIN Get(self.current_masks)
              /\ Get(self.current_masks)[local][i]

\* C10: restore_init leaves every nonzero element and every inactive zero element as
\* it was, and gives every active zero element its value in InitialValues.
C10_RestoreFrame ==
    pc = "returned" =>
        \A p \in ParamPaths : \A i \in 1..Len(module.params[p]) :
            LET old == Get(call.before)[p][i]
                new == module.params[p][i]
            IN  /\ old # 0 => new = old
                /\ (old = 0 /\ ~ActiveElement(p, i)) => new = 0
                /\ (old = 0 /\ ActiveElement(p, i)) => new = Get(disk.init_values)[p][i]

\* a call under a mask that met a trained value, a zero the mask keeps off and a zero
\* the mask activates
C10_Witness ==
    /\ pc = "returned"
    /\ ~IsNone(self.current_masks)
    /\ Get(self.current_masks)["l.w"] = <<TRUE, FALSE, TRUE, TRUE>>
    /\ Get(call.before)["enc.l.w"] = <<1, 0, 0, 1>>
    /\ module.params["enc.l.w"] = <<1, 0, 3, 1>>

-----------------------------------------------------------------------------
(* train() on arguments and directories of every kind (SpecTrain).          *)

\* schedules with and without an entry for epoch 0 (the empty schedule included),
\* and two that ask for a sparsity too small to prune one element
TrainSchedules ==
    UNION {[K -> {0, 50}] : K \in SUBSET (0..MaxKey)}
    \cup {(0 :> 10), (0 :> 50 @@ 1 :> 10)}

\* the pruned submodule is the encoder, a name the model does not have, or the
\* whole model; the optimizer list may be empty; the cap may be set
TrainArgs ==
    [schedule : TrainSchedules,
     forward_mask : {TRUE},
     restore_init_values : {TRUE},
     resume_epoch : {0},
     scale_lr : {TRUE},
     scale_lr_by_param : {FALSE},
     max_lr_scaling : {<<2, 1>>},
     max_param_sparsity : {100, 50},
     exclude_params : {DefaultExclude},
     snip_module_name : {"enc", "encoder", ""},
     track_all_params_lr : {FALSE},
     optim_lrs : {<<ROne>>},
     optimizers : {<<>>, OneOptimizer(ROne)},
     schedulers : {<<>>}]

\* the sniper_dir an earlier run on the encoder with no parameter excluded has left
PriorDisk ==
    train([self |-> InitSelf, optimizers |-> <<>>, schedulers |-> <<>>,
           module |-> [params |-> BuiltValues, hooks |-> {}], disk |-> EmptyDisk],
          [RestoreArgs EXCEPT !.exclude_params = {}]).w.disk

\* the same directory with total_grads.pt removed
MasksOnlyDisk == [PriorDisk EXCEPT !.total_grads = NoneV]

InitTrain ==
    /\ pc = "new"
    /\ self = InitSelf
    /\ optimizers = <<>>
    /\ schedulers = <<>>
    /\ module = [params |-> BuiltValues, hooks |-> {}]
    /\ disk \in {EmptyDisk, PriorDisk, MasksOnlyDisk}
    /\ hist = [resumed |-> FALSE, steps |-> 0, optimizers |-> <<>>]
    /\ call = NoneV

\* train(...), the arguments and the directory it was given being remembered
TrainAny ==
    /\ pc = "new"
    /\ \E args \in TrainArgs :
        /\ Commit(train(World, args))
        /\ hist' = [resumed |-> FALSE, steps |-> 0, optimizers |-> args.optimizers]
        /\ call' = Some([args |-> args, disk |-> disk])

NextTrain == TrainAny \/ Step
SpecTrain == InitTrain /\ [][NextTrain]_vars

\* what train() was called with
Args == Get(call).args

\* C15: train() with a schedule that has no key 0 raises, and leaves every field of
\* the controller, the model and every file as they were.
C15_NoKeyZeroFailsFast ==
    (call # NoneV /\ 0 \notin DOMAIN Args.schedule) =>
        /\ pc = "raised"
        /\ self = InitSelf
        /\ disk = Get(call).disk
        /\ optimizers = <<>> /\ schedulers = <<>>
        /\ module = [params |-> BuiltValues, hooks |-> {}]

\* a schedule that starts at epoch 1, given with an optimizer and a directory that
\* holds files
C15_Witness ==
    /\ pc = "raised"
    /\ Args.schedule = (1 :> 50)
    /\ Args.optimizers # <<>>
    /\ Get(call).disk = PriorDisk

\* C16: train() with a nonzero schedule[0] and no optimizer raises before it has
\* written any file.
C16_NoOptimizerFailsFast ==
    (/\ call # NoneV
     /\ 0 \in DOMAIN Args.schedule /\ Args.schedule[0] # 0
     /\ Args.optimizers = <<>>) =>
        /\ pc = "raised"
        /\ disk = Get(call).disk

\* snip_module_name names a submodule of the model (the empty name is the model)
Resolves(snip_module_name) ==
    snip_module_name = "" \/ get_module_by_name("", snip_module_name) # AttributeError

\* every name of the current mask is the name of a parameter of module_to_snip
MaskNamesResolve ==
    \A n \in DOMAIN Get(self.current_masks) :
        /\ Dots(n) # {}
        /\ ParamOf(self.module_to_snip, RSplitModule(n), RSplitName(n)) # AttributeError

\* a step() has just made a transition to a nonzero sparsity and returned
Transitioned ==
    /\ pc = "trained"
    /\ self.epoch >= 1 /\ self.epoch \in DOMAIN self.schedule
    /\ ~IsNone(self.current_masks)

\* C17, restore: a step() that restores under a mask returns only if every name of the
\* mask was resolved.
C17_RestoreLookupRaises == Transitioned => MaskNamesResolve

\* C17: a snip_module_name that names no submodule makes train() raise, and a mask
\* name without a parameter makes the restoring step() raise.
C17_LookupFailurePropagates ==
    /\ (call # NoneV /\ 0 \in DOMAIN Args.schedule /\ ~Resolves(Args.snip_module_name)) =>
            pc = "raised"
    /\ C17_RestoreLookupRaises

\* C18: when train() has returned, a mask file exists for every nonzero sparsity of the
\* schedule, here and after every later step().
C18_MaskFilesPresent ==
    pc = "trained" =>
        \A sparsity \in Range(self.schedule) \ {0} :
            MasksPath(sparsity, self.max_param_sparsity) \in DOMAIN disk.masks

\* train() on an empty directory, with a cap, and the step() to the scheduled sparsity
\* that loaded the file train() wrote
C18_Witness ==
    /\ pc = "trained"
    /\ Get(call).disk = EmptyDisk
    /\ self.schedule = (0 :> 0 @@ 1 :> 50)
    /\ self.max_param_sparsity = 50
    /\ self.epoch = 1
    /\ self.current_masks = Some(disk.masks[MasksPath(50, 50)])

\* C19: no name of the current mask, and of a mask a hook applies, contains a string
\* of exclude_params.
C19_MaskNamesPrunable ==
    pc = "trained" =>
        /\ ~IsNone(self.current_masks) =>
            \A n \in DOMAIN Get(self.current_masks) : will_prune(n, self.exclude_params)
        /\ \A h \in module.hooks : ~IsNone(h.masks) =>
            \A n \in DOMAIN Get(h.masks) : will_prune(n, self.exclude_params)

\* a step() has loaded a mask file that holds a mask for the excluded norm.w
C19_Witness ==
    /\ pc = "trained"
    /\ self.schedule = (0 :> 0 @@ 1 :> 50) /\ self.epoch = 1
    /\ self.max_param_sparsity = 100
    /\ "norm.w" \in DOMAIN disk.masks[MasksPath(50, 100)]
    /\ DOMAIN Get(self.current_masks) = {"l.w", "m.w"}
    /\ \E h \in module.hooks : h.masks = self.current_masks

\* the sniper_dir train() was given
PriorFiles == Get(call).disk

\* every nonzero sparsity of the schedule had its mask file before train()
AllMasksCached ==
    \A k \in DOMAIN Args.schedule :
        Args.schedule[k] # 0 =>
            MasksPath(Args.schedule[k], Args.max_param_sparsity) \in DOMAIN PriorFiles.masks

\* C25: train() leaves every file that existed as it was (mask files, init_values,
\* total_grads), and it neither computes nor saves gradients when total_grads exists
\* or when every scheduled nonzero sparsity already has its mask file.
C25_PersistedFilesKept ==
    ~IsNone(call) =>
        /\ \A path \in DOMAIN PriorFiles.masks :
                path \in DOMAIN disk.masks /\ disk.masks[path] = PriorFiles.masks[path]
        /\ ~IsNone(PriorFiles.init_values) => disk.init_values = PriorFiles.init_values
        /\ ~IsNone(PriorFiles.total_grads) => disk.total_grads = PriorFiles.total_grads
        /\ AllMasksCached => disk.total_grads = PriorFiles.total_grads

\* a run with a cap of 50 in a directory that has the gradients and the uncapped mask
\* of sparsity 50: the capped mask is created from the loaded gradients
C25_Witness ==
    /\ pc = "trained"
    /\ ~IsNone(call)
    /\ PriorFiles = PriorDisk
    /\ Args.max_param_sparsity = 50
    /\ Args.schedule = (0 :> 50)
    /\ MasksPath(50, 50) \in DOMAIN disk.masks
    /\ MasksPath(50, 50) \notin DOMAIN PriorFiles.masks
    /\ "norm.w" \in DOMAIN Get(disk.total_grads)

-----------------------------------------------------------------------------
(* compute_gradients, batch by batch: the gradients torch.autograd.grad      *)
(* returns for each batch are inputs.                                        *)

\* params_to_prune of the module "enc" with the default exclude_params
ParamsToPrune == DOMAIN compute_gradients("enc", DefaultExclude)

\* total_grads = [torch.zeros_like(mask) for mask in masks]
ZeroGrads == [n \in ParamsToPrune |-> [i \in 1..Len(BuiltValues[Join("enc", n)]) |-> 0]]

\* the gradients of one batch: one signed value per element
BatchGrads ==
    {[n \in ParamsToPrune |-> [i \in 1..Len(ZeroGrads[n]) |-> IF i % 2 = 1 THEN a ELSE b]] :
        a, b \in (0 - MaxBatchGrad)..MaxBatchGrad}

BatchIterators == UNION {[1..n -> BatchGrads] : n \in 0..MaxBatches}

Abs(x) == IF x < 0 THEN 0 - x ELSE x

\* call.batches is what the iterator yields, call.next the position of the iterator,
\* call.i the loop variable (unbound until the first batch)
InitGrads ==
    /\ pc = "compute_gradients"
    /\ \E it \in BatchIterators :
            call = [batches |-> it, next |-> 1, i |-> NoneV, total_grads |-> ZeroGrads,
                    result |-> NoneV]
    /\ self = InitSelf
    /\ optimizers = <<>>
    /\ schedulers = <<>>
    /\ module = [params |-> BuiltValues, hooks |-> {}]
    /\ disk = EmptyDisk
    /\ hist = [resumed |-> FALSE, steps |-> 0, optimizers |-> <<>>]

\* one iteration of the loop, lines 438-447
GradBatch ==
    /\ pc = "compute_gradients"
    /\ call.next <= Len(call.batches)
    /\ LET grads == call.batches[call.next]
       IN  call' = [call EXCEPT
                !.i = Some(call.next - 1),
                !.next = @ + 1,
                !.total_grads = [n \in ParamsToPrune |->
                    [e \in 1..Len(@[n]) |-> @[n][e] + grads[n][e]]]]
    /\ UNCHANGED <<pc, self, optimizers, schedulers, module, disk, hist>>

\* lines 449-454 after at least one batch
GradReturn ==
    /\ pc = "compute_gradients"
    /\ call.next > Len(call.batches)
    /\ ~IsNone(call.i)
    /\ call' = [call EXCEPT !.result =
                    Some([n \in ParamsToPrune |->
                            [e \in 1..Len(call.total_grads[n]) |-> Abs(call.total_grads[n][e])]])]
    /\ pc' = "returned"
    /\ UNCHANGED <<self, optimizers, schedulers, module, disk, hist>>

\* line 453 reads i, which an empty iterator never binds
GradRaise ==
    /\ pc = "compute_gradients"
    /\ call.next > Len(call.batches)
    /\ IsNone(call.i)
    /\ pc' = "raised"
    /\ UNCHANGED <<call, self, optimizers, schedulers, module, disk, hist>>

NextGrads == GradBatch \/ GradReturn \/ GradRaise
SpecGrads == InitGrads /\ [][NextGrads]_vars

\* the sum over all batches of the absolute value of the batch's gradient
SumOfAbs(n, e) ==
    SeqSum([b \in 1..Len(call.batches) |-> Abs(call.batches[b][n][e])])

\* C24: compute_gradients takes every batch of the iterator exactly once and returns,
\* for every element of every prunable parameter, the sum over the batches of the
\* absolute value of the batch's gradient.
C24_SumsAbsolutePerBatch ==
    pc = "returned" =>
        /\ call.next = Len(call.batches) + 1
        /\ Get(call.i) = Len(call.batches) - 1
        /\ \A n \in ParamsToPrune : \A e \in 1..Len(ZeroGrads[n]) :
                Get(call.result)[n][e] = SumOfAbs(n, e)

-----------------------------------------------------------------------------
(* A resumed run beside the uninterrupted run it resumes (SpecResume).      *)

\* the world before train(): a model just built, an empty sniper_dir
NewWorld ==
    [self |-> InitSelf, optimizers |-> <<>>, schedulers |-> <<>>,
     module |-> [params |-> BuiltValues, hooks |-> {}], disk |-> EmptyDisk]

\* the uninterrupted run: a fresh train(), then n calls of step()
RECURSIVE FreshRun(_, _)
FreshRun(args, n) ==
    IF n = 0 THEN train(NewWorld, [args EXCEPT !.resume_epoch = 0]).w
    ELSE step(FreshRun(args, n - 1)).w

ResumeArgs == {args \in CtlArgs : args.resume_epoch # 0}

\* train(resume_epoch = e) in a new process, in the sniper_dir of the uninterrupted
\* run, the caller having restored the parameters and the optimizer's lrs to those
\* of the uninterrupted run at epoch e; call.fresh is the uninterrupted run
TrainResumed ==
    /\ pc = "new"
    /\ \E args \in ResumeArgs :
        LET fresh == FreshRun(args, args.resume_epoch)
            restored == [args EXCEPT !.optimizers = fresh.optimizers]
        IN  /\ Commit(train([World EXCEPT !.disk = fresh.disk,
                                          !.module.params = fresh.module.params],
                            restored))
            /\ hist' = [resumed |-> TRUE, steps |-> 0, optimizers |-> restored.optimizers]
            /\ call' = Some([args |-> args, fresh |-> fresh])

\* step() in both runs
StepResumed ==
    /\ pc = "trained"
    /\ Get(call).fresh.self.epoch < MaxEpoch + 1
    /\ Commit(step(World))
    /\ call' = Some([Get(call) EXCEPT !.fresh = step(@).w])
    /\ UNCHANGED hist

NextResume == TrainResumed \/ StepResumed
SpecResume == Init /\ [][NextResume]_vars

\* the uninterrupted run, at the epoch the resumed run has been advanced to
Fresh == Get(call).fresh

\* C28: at every epoch after the one it resumed at, a resumed run whose optimizer lrs
\* the caller restored has the current sparsity, current mask, hook binding and
\* group lrs of the uninterrupted run at that epoch.
C28_ResumedMatchesFresh ==
    (/\ pc = "trained"
     /\ ~IsNone(call)
     /\ Fresh.self.epoch > Args.resume_epoch) =>
        /\ self.current_sparsity = Fresh.self.current_sparsity
        /\ self.current_masks = Fresh.self.current_masks
        /\ {h.masks : h \in module.hooks} = {h.masks : h \in Fresh.module.hooks}
        /\ \A o \in 1..Len(optimizers) : \A g \in 1..Len(optimizers[o]) :
                optimizers[o][g].lr = Fresh.optimizers[o][g].lr

====
